---- MODULE Spec2Model ----
(***************************************************************************)
(* A model of LlamaCppEmbedding                                            *)
(* (packages/core/src/embedding/llamacpp-embedding.ts): the adapter's      *)
(* fields, its constructor, its setters, and the asynchronous operations   *)
(* embed, embedBatch, setModel and detectDimension together with the HTTP  *)
(* request each of them awaits.                                            *)
(*                                                                         *)
(* Conventions.  An optional field of the configuration object is a        *)
(* sequence: <<>> is undefined, <<v>> is the value v.  JavaScript strings  *)
(* are TLA+ strings.  An embedding is a sequence of numbers; only its      *)
(* length is ever inspected by the adapter, so every entry is 0.  The      *)
(* callers are typed: every argument has the type its signature declares,  *)
(* so the typeof guards of the code always pass.                           *)
(***************************************************************************)
EXTENDS Integers, Sequences, FiniteSets, TLC

\* ------------------------------------------------------------------ bounds

\* The number of calls that may be awaited at the same time.
MaxCalls == 2
\* The longest embedding the server returns.
MaxDim == 2
\* The longest data array the server returns.
MaxData == 2

\* ------------------------------------------------------- program constants

DefaultDimension == 768
DefaultMaxTokens == 8192
DefaultTimeout == 30000
MaxTimeout == 600000
DefaultCodePrefix == "Represent this query for searching relevant code:"
DefaultHost == "http://localhost:8080"
FallbackModel == "embedding-model"
DefaultTestText == "test"

\* -------------------------------------------------------- JavaScript values

Undefined == <<>>
Some(v) == <<v>>
IsDefined(o) == o # <<>>
\* Truthiness of an optional number: undefined and 0 are falsy.
TruthyNum(o) == o # <<>> /\ o[1] # 0
\* Truthiness of an optional string: undefined and "" are falsy.
TruthyStr(o) == o # <<>> /\ o[1] # ""
\* Truthiness of an optional boolean.
TruthyBool(o) == o # <<>> /\ o[1]

\* String.prototype.startsWith
StartsWith(s, p) == Len(s) >= Len(p) /\ SubSeq(s, 1, Len(p)) = p
\* s.trim() === '' for strings whose only whitespace is the space
IsBlank(s) == \A i \in 1..Len(s) : SubSeq(s, i, i) = " "

\* An embedding of n numbers.
Emb(n) == [i \in 1..n |-> 0]

\* Sequences over S of length at most n.
SeqUpTo(S, n) == UNION {[1..k -> S] : k \in 0..n}

\* ------------------------------------------------------------------ inputs

\* Hosts a caller passes: the default host written with a trailing slash,
\* and a URL of another scheme.
HostInputs == {"http://localhost:8080/", "ftp://localhost"}
\* Model names: an empty one and two real ones.
ModelInputs == {"", "m1", "m2"}
DimensionInputs == {-1, 0, 2}
MaxTokensInputs == {-1, 16}
\* Timeouts passed to the constructor and to setTimeout.
TimeoutInputs == {0, DefaultTimeout, MaxTimeout + 1}
PrefixInputs == {" ", "Q:"}
\* Texts to embed: one that carries no prefix and one that already starts
\* with the default prefix.
Texts == {"foo", DefaultCodePrefix \o " foo"}
\* Arguments of embedBatch.
Batches == {<<>>, <<DefaultCodePrefix \o " foo", "foo">>}

\* A configuration object with no field set.
EmptyConfig ==
    [host |-> Undefined, model |-> Undefined, codePrefix |-> Undefined,
     dimension |-> Undefined, maxTokens |-> Undefined, timeout |-> Undefined]

\* The configuration objects passed to the constructor: the empty one, and
\* those that set one field.
Configs ==
    {EmptyConfig}
    \cup {[EmptyConfig EXCEPT !.host = Some(h)] : h \in HostInputs}
    \cup {[EmptyConfig EXCEPT !.model = Some(m)] : m \in ModelInputs}
    \cup {[EmptyConfig EXCEPT !.codePrefix = Some(b)] : b \in BOOLEAN}
    \cup {[EmptyConfig EXCEPT !.dimension = Some(d)] : d \in DimensionInputs}
    \cup {[EmptyConfig EXCEPT !.maxTokens = Some(n)] : n \in MaxTokensInputs}
    \cup {[EmptyConfig EXCEPT !.timeout = Some(t)] : t \in TimeoutInputs}

\* ------------------------------------------------------------------- state

VARIABLES
    instance,           \* "none" before new, "live" after it, "failed" if it threw
    config,             \* this.config
    dimension,          \* this.dimension
    dimensionDetected,  \* this.dimensionDetected
    maxTokens,          \* this.maxTokens
    host,               \* this.host
    codePrefix,         \* this.codePrefix
    calls,              \* the calls being awaited, by caller
    dimensionSource     \* the model named in the request whose answer was
                        \* last written to this.dimension ("" if none was)

vars == <<instance, config, dimension, dimensionDetected, maxTokens, host,
          codePrefix, calls, dimensionSource>>

adapter == <<instance, config, dimension, dimensionDetected, maxTokens, host,
             codePrefix, dimensionSource>>

Calls == 1..MaxCalls

NoRequest == [phase |-> "none", url |-> "", input |-> <<>>, model |-> "",
              timeout |-> 0, late |-> FALSE]

NoResult == [kind |-> "none", message |-> "", vectors |-> <<>>, number |-> 0]

\* A caller's call: the operation and its argument(s), the point where it is
\* suspended ("ensure": awaiting ensureDimensionDetected; "request":
\* awaiting makeRequest), the processed text(s) it holds, the request it
\* awaits, how many requests it has issued (of which detections were issued
\* by ensureDimensionDetected), and what it returned or threw.
IdleCall == [op |-> "none", pc |-> "idle", arg |-> <<>>, input |-> <<>>,
             request |-> NoRequest, requests |-> 0, detections |-> 0,
             result |-> NoResult]

\* ---------------------------------------------------------- pure functions

\* new URL(host).protocol for the hosts above ("" when URL throws)
UrlProtocol(h) ==
    IF StartsWith(h, "http://") THEN "http:"
    ELSE IF StartsWith(h, "https://") THEN "https:"
    ELSE IF StartsWith(h, "ftp://") THEN "ftp:"
    ELSE ""

\* validateHostUrl: TRUE when it returns, FALSE when it throws
validateHostUrl(h) == UrlProtocol(h) \in {"http:", "https:"}

\* normalizeHost: host.replace(/\/$/, '')
normalizeHost(h) ==
    IF Len(h) > 0 /\ SubSeq(h, Len(h), Len(h)) = "/"
    THEN SubSeq(h, 1, Len(h) - 1)
    ELSE h

\* validateConfig: TRUE when it returns, FALSE when it throws
validateConfig(cfg) ==
    /\ ~(IsDefined(cfg.timeout) /\ cfg.timeout[1] <= 0)
    /\ (TruthyStr(cfg.host) => validateHostUrl(cfg.host[1]))

\* The checks of the constructor body that throw.
ConstructorThrows(cfg) ==
    \/ ~validateConfig(cfg)
    \/ (TruthyNum(cfg.dimension) /\ cfg.dimension[1] <= 0)
    \/ (TruthyNum(cfg.maxTokens) /\ cfg.maxTokens[1] <= 0)

\* Embedding.preprocessText of the base class, as the specification's
\* example of embed("foo") has it: the text is passed on as it is.
preprocessText(text) == text

\* preprocessTextForCode without its startsWith test.
preprocessTextForCodeAlways(text) ==
    LET processedText == preprocessText(text) IN
    IF TruthyBool(config.codePrefix)
    THEN codePrefix \o " " \o processedText
    ELSE processedText

\* preprocessTextForCode
preprocessTextForCode(text) ==
    LET processedText == preprocessText(text) IN
    IF TruthyBool(config.codePrefix) /\ ~StartsWith(processedText, codePrefix)
    THEN codePrefix \o " " \o processedText
    ELSE processedText

\* this.config.model || 'embedding-model'
RequestModel == IF TruthyStr(config.model) THEN config.model[1] ELSE FallbackModel

\* this.config.timeout || 30000
RequestTimeout == IF TruthyNum(config.timeout) THEN config.timeout[1] ELSE DefaultTimeout

\* `${this.host}/v1/embeddings`
RequestUrl == host \o "/v1/embeddings"

\* getDimension
getDimension == dimension

\* getModel
getModel == IF TruthyStr(config.model) THEN config.model[1] ELSE "nomic-embed-code"

\* ensureDimensionDetected with a guard that forgets the detected flag.
NeedsDetectionIgnoringFlag(detected, fixed) == ~TruthyNum(fixed)

\* ensureDimensionDetected with a guard that forgets the configured dimension.
NeedsDetectionIgnoringFixed(detected, fixed) == ~detected

\* The guard of ensureDimensionDetected, on the values of
\* this.dimensionDetected and this.config.dimension
NeedsDetection(detected, fixed) == ~detected /\ ~TruthyNum(fixed)

\* ------------------------------------------------------------ construction

Init ==
    /\ instance = "none"
    /\ config = EmptyConfig
    /\ dimension = DefaultDimension
    /\ dimensionDetected = FALSE
    /\ maxTokens = DefaultMaxTokens
    /\ host = DefaultHost
    /\ codePrefix = DefaultCodePrefix
    /\ calls = [c \in Calls |-> IdleCall]
    /\ dimensionSource = ""

\* new LlamaCppEmbedding(cfg).  When the constructor throws there is no
\* instance; config then holds the object that was passed.
Construct(cfg) ==
    /\ instance = "none"
    /\ IF ConstructorThrows(cfg)
       THEN /\ instance' = "failed"
            /\ config' = cfg
            /\ UNCHANGED <<dimension, dimensionDetected, maxTokens, host>>
       ELSE /\ instance' = "live"
            /\ config' = [cfg EXCEPT !.codePrefix =
                            IF cfg.codePrefix = Undefined THEN Some(TRUE) ELSE @]
            /\ host' = normalizeHost(IF TruthyStr(cfg.host) THEN cfg.host[1] ELSE DefaultHost)
            /\ IF TruthyNum(cfg.dimension)
               THEN dimension' = cfg.dimension[1] /\ dimensionDetected' = TRUE
               ELSE UNCHANGED <<dimension, dimensionDetected>>
            /\ maxTokens' = IF TruthyNum(cfg.maxTokens) THEN cfg.maxTokens[1] ELSE maxTokens
    /\ UNCHANGED <<codePrefix, calls, dimensionSource>>

\* ----------------------------------------------------------------- setters

\* setHost(h): throws on a host that is no http(s) URL
setHost(h) ==
    /\ instance = "live"
    /\ IF validateHostUrl(h)
       THEN /\ host' = normalizeHost(h)
            /\ config' = [config EXCEPT !.host = Some(h)]
       ELSE UNCHANGED <<host, config>>
    /\ UNCHANGED <<instance, dimension, dimensionDetected, maxTokens, codePrefix,
                   calls, dimensionSource>>

\* setCodePrefix(enabled)
setCodePrefix(enabled) ==
    /\ instance = "live"
    /\ config' = [config EXCEPT !.codePrefix = Some(enabled)]
    /\ UNCHANGED <<instance, dimension, dimensionDetected, maxTokens, host,
                   codePrefix, calls, dimensionSource>>

\* setCustomCodePrefix(prefix): throws on a blank prefix
setCustomCodePrefix(prefix) ==
    /\ instance = "live"
    /\ IF IsBlank(prefix)
       THEN UNCHANGED <<codePrefix, config>>
       ELSE /\ codePrefix' = prefix
            /\ config' = [config EXCEPT !.codePrefix = Some(TRUE)]
    /\ UNCHANGED <<instance, dimension, dimensionDetected, maxTokens, host,
                   calls, dimensionSource>>

\* setTimeout(t): throws unless 0 < t <= 600000
setTimeout(t) ==
    /\ instance = "live"
    /\ IF t <= 0 \/ t > MaxTimeout
       THEN UNCHANGED config
       ELSE config' = [config EXCEPT !.timeout = Some(t)]
    /\ UNCHANGED <<instance, dimension, dimensionDetected, maxTokens, host,
                   codePrefix, calls, dimensionSource>>

\* ------------------------------------------------------------ the server

\* The items of a response's data array: something that is no object, an
\* object without an embedding array, an object with one.
Items ==
    {[isObject |-> FALSE, hasEmbedding |-> FALSE, embedding |-> <<>>],
     [isObject |-> TRUE, hasEmbedding |-> FALSE, embedding |-> <<>>]}
    \cup {[isObject |-> TRUE, hasEmbedding |-> TRUE, embedding |-> Emb(n)] : n \in 0..MaxDim}

\* The JSON values of a response body: something that is no object, an
\* object without a data array, an object with one.
Jsons ==
    {[isObject |-> FALSE, hasData |-> FALSE, data |-> <<>>],
     [isObject |-> TRUE, hasData |-> FALSE, data |-> <<>>]}
    \cup {[isObject |-> TRUE, hasData |-> TRUE, data |-> d] : d \in SeqUpTo(Items, MaxData)}

\* What the body of a response turns out to be: that of a non-2xx status,
\* text that is no JSON, or a JSON value.
Bodies ==
    {[status |-> "error", parses |-> FALSE, json |-> [isObject |-> FALSE, hasData |-> FALSE, data |-> <<>>]],
     [status |-> "ok", parses |-> FALSE, json |-> [isObject |-> FALSE, hasData |-> FALSE, data |-> <<>>]]}
    \cup {[status |-> "ok", parses |-> TRUE, json |-> j] : j \in Jsons}

\* ---------------------------------------------------------------- results

NetworkError(m) == [kind |-> "NetworkError", message |-> m, vectors |-> <<>>, number |-> 0]
ConfigurationError(m) == [kind |-> "ConfigurationError", message |-> m, vectors |-> <<>>, number |-> 0]
Vectors(vs) == [kind |-> "ok", message |-> "", vectors |-> vs, number |-> 0]
Number(n) == [kind |-> "ok", message |-> "", vectors |-> <<>>, number |-> n]
Void == [kind |-> "ok", message |-> "", vectors |-> <<>>, number |-> 0]

\* makeRequest once the body is read: the error it throws, or no error
makeRequestError(body) ==
    IF body.status # "ok" THEN "HTTP error"
    ELSE IF ~body.parses THEN "Invalid JSON response from server"
    ELSE ""

\* The shape checks embed and detectDimension make on a response
ResponseError(json) ==
    IF ~json.isObject THEN "Invalid response format: expected object"
    ELSE IF ~json.hasData THEN "Invalid response format: missing or invalid data array"
    ELSE IF Len(json.data) = 0 THEN "Invalid response format: empty data array"
    ELSE IF ~json.data[1].isObject THEN "Invalid response format: invalid first data item"
    ELSE IF ~json.data[1].hasEmbedding
         THEN "Invalid response format: missing or invalid embedding array"
    ELSE ""

\* The indices of the items embedBatch rejects
BadItems(json) ==
    {i \in 1..Len(json.data) : ~json.data[i].isObject \/ ~json.data[i].hasEmbedding}

FirstBad(json) == CHOOSE i \in BadItems(json) : \A j \in BadItems(json) : i <= j

\* The shape checks embedBatch makes on a response
BatchResponseError(json) ==
    IF ~json.isObject THEN "Invalid batch response format: expected object"
    ELSE IF ~json.hasData THEN "Invalid batch response format: missing or invalid data array"
    ELSE IF Len(json.data) = 0 THEN "Invalid batch response format: empty data array"
    ELSE IF BadItems(json) = {} THEN ""
    ELSE IF ~json.data[FirstBad(json)].isObject
         THEN "Invalid batch response format: invalid item at index "
              \o ToString(FirstBad(json) - 1)
    ELSE "Invalid batch response format: missing or invalid embedding at index "
         \o ToString(FirstBad(json) - 1)

\* What embed returns or throws for a response body
embedResult(body) ==
    IF makeRequestError(body) # "" THEN NetworkError(makeRequestError(body))
    ELSE IF ResponseError(body.json) # "" THEN NetworkError(ResponseError(body.json))
    ELSE Vectors(<<[vector |-> body.json.data[1].embedding, dimension |-> dimension]>>)

\* What embedBatch returns or throws for a response body
embedBatchResult(body) ==
    IF makeRequestError(body) # "" THEN NetworkError(makeRequestError(body))
    ELSE IF BatchResponseError(body.json) # "" THEN NetworkError(BatchResponseError(body.json))
    ELSE Vectors([i \in 1..Len(body.json.data) |->
                    [vector |-> body.json.data[i].embedding, dimension |-> dimension]])

\* What detectDimension returns or throws for a response body
detectDimensionResult(body) ==
    IF makeRequestError(body) # "" THEN NetworkError(makeRequestError(body))
    ELSE IF ResponseError(body.json) # "" THEN NetworkError(ResponseError(body.json))
    ELSE IF Len(body.json.data[1].embedding) <= 0 THEN NetworkError("Invalid embedding dimension: 0")
    ELSE Number(Len(body.json.data[1].embedding))

\* ------------------------------------------------------------ HTTP request

\* makeRequest up to its await of fetch: the request in flight, its timer
\* armed with this.config.timeout || 30000
makeRequest(input, model) ==
    [phase |-> "fetch", url |-> RequestUrl, input |-> input, model |-> model,
     timeout |-> RequestTimeout, late |-> FALSE]

\* A call that has returned r or thrown it.
Done(call, r) ==
    [IdleCall EXCEPT !.op = call.op, !.pc = "done", !.requests = call.requests,
                     !.detections = call.detections, !.result = r]

\* ensureDimensionDetected up to its await: a detection request when the
\* guard holds, nothing otherwise
ensureDimensionDetected(call, detected, fixed, model) ==
    IF NeedsDetection(detected, fixed)
    THEN [call EXCEPT !.pc = "ensure",
                      !.request = makeRequest(<<preprocessText(DefaultTestText)>>, model),
                      !.requests = @ + 1,
                      !.detections = @ + 1]
    ELSE [call EXCEPT !.pc = "ensure"]

\* A caller starts its next call in the first slot that is free.
Free(c) ==
    /\ calls[c].pc = "idle"
    /\ \A d \in Calls : d < c => calls[d].pc # "idle"

Pending(c) == calls[c].request.phase # "none"

\* -------------------------------------------------------------- operations

\* embed(text), to its first await
embed(c, text) ==
    /\ instance = "live"
    /\ Free(c)
    /\ LET call == [IdleCall EXCEPT !.op = "embed", !.arg = <<text>>,
                                    !.input = <<preprocessTextForCode(text)>>]
       IN calls' = [calls EXCEPT ![c] =
             ensureDimensionDetected(call, dimensionDetected, config.dimension, RequestModel)]
    /\ UNCHANGED adapter

\* embedBatch(texts), to its first await
embedBatch(c, texts) ==
    /\ instance = "live"
    /\ Free(c)
    /\ LET call == [IdleCall EXCEPT !.op = "embedBatch", !.arg = texts,
                      !.input = [i \in 1..Len(texts) |-> preprocessTextForCode(texts[i])]]
       IN calls' = [calls EXCEPT ![c] =
             IF Len(texts) = 0
             THEN Done(call, ConfigurationError("Texts array cannot be empty"))
             ELSE ensureDimensionDetected(call, dimensionDetected, config.dimension,
                                          RequestModel)]
    /\ UNCHANGED adapter

\* embed and embedBatch once ensureDimensionDetected has returned: the
\* embeddings request
sendEmbeddings(c) ==
    /\ calls[c].pc = "ensure"
    /\ ~Pending(c)
    /\ calls[c].op \in {"embed", "embedBatch"}
    /\ calls' = [calls EXCEPT ![c] =
          [@ EXCEPT !.pc = "request",
                    !.request = makeRequest(calls[c].input, RequestModel),
                    !.requests = @ + 1,
                    !.result = NoResult]]
    /\ UNCHANGED adapter

\* setModel without the reset of this.dimensionDetected.
setModelKeepingFlag(c, model) ==
    /\ instance = "live"
    /\ Free(c)
    /\ LET call == [IdleCall EXCEPT !.op = "setModel", !.arg = <<model>>] IN
       IF IsBlank(model)
       THEN /\ calls' = [calls EXCEPT ![c] =
                  Done(call, ConfigurationError("Model name cannot be empty"))]
            /\ UNCHANGED config
       ELSE /\ config' = [config EXCEPT !.model = Some(model)]
            /\ calls' = [calls EXCEPT ![c] =
                  IF ~TruthyNum(config.dimension)
                  THEN ensureDimensionDetected(call, dimensionDetected, config.dimension, model)
                  ELSE Done(call, Void)]
    /\ UNCHANGED <<instance, dimension, dimensionDetected, maxTokens, host, codePrefix,
                   dimensionSource>>

\* setModel(model), to its await
setModel(c, model) ==
    /\ instance = "live"
    /\ Free(c)
    /\ LET call == [IdleCall EXCEPT !.op = "setModel", !.arg = <<model>>] IN
       IF IsBlank(model)
       THEN /\ calls' = [calls EXCEPT ![c] =
                  Done(call, ConfigurationError("Model name cannot be empty"))]
            /\ UNCHANGED <<config, dimensionDetected>>
       ELSE /\ config' = [config EXCEPT !.model = Some(model)]
            /\ dimensionDetected' = FALSE
            /\ calls' = [calls EXCEPT ![c] =
                  IF ~TruthyNum(config.dimension)
                  THEN ensureDimensionDetected(call, FALSE, config.dimension, model)
                  ELSE Done(call, Void)]
    /\ UNCHANGED <<instance, dimension, maxTokens, host, codePrefix, dimensionSource>>

\* setModel once ensureDimensionDetected has returned
setModelReturns(c) ==
    /\ calls[c].pc = "ensure"
    /\ ~Pending(c)
    /\ calls[c].op = "setModel"
    /\ calls' = [calls EXCEPT ![c] = Done(@, Void)]
    /\ UNCHANGED adapter

\* detectDimension(testText) called by a caller, to its await
detectDimension(c, testText) ==
    /\ instance = "live"
    /\ Free(c)
    /\ calls' = [calls EXCEPT ![c] =
          [IdleCall EXCEPT !.op = "detectDimension", !.arg = <<testText>>,
                           !.pc = "request",
                           !.request = makeRequest(<<preprocessText(testText)>>, RequestModel),
                           !.requests = 1]]
    /\ UNCHANGED adapter

\* The caller takes what its call returned or threw.
return(c) ==
    /\ calls[c].pc = "done"
    /\ calls' = [calls EXCEPT ![c] = IdleCall]
    /\ UNCHANGED adapter

\* --------------------------------------------------- the request in flight

\* makeRequest with a retry: when no connection is made the request is
\* issued once more.
fetchRejectsRetrying(c, connection) ==
    /\ calls[c].request.phase = "fetch"
    /\ calls' = [calls EXCEPT ![c] =
          IF connection
          THEN [@ EXCEPT !.requests = @ + 1]
          ELSE Done(@, NetworkError("Unexpected error"))]
    /\ UNCHANGED adapter

\* fetch rejects: a TypeError naming fetch (no connection), or another Error
fetchRejects(c, connection) ==
    /\ calls[c].request.phase = "fetch"
    /\ calls' = [calls EXCEPT ![c] = Done(@, NetworkError(
          IF connection
          THEN "Unable to connect to llama.cpp server at " \o host
          ELSE "Unexpected error"))]
    /\ UNCHANGED adapter

\* fetch resolves with the response's status and headers: clearTimeout,
\* then the await of response.text() or response.json()
headersArrive(c) ==
    /\ calls[c].request.phase = "fetch"
    /\ calls' = [calls EXCEPT ![c].request.phase = "body"]
    /\ UNCHANGED adapter

\* The request's timeout elapses.  While fetch is awaited the timer is
\* armed: controller.abort() rejects fetch with an AbortError.  Once the
\* headers have arrived the timer is cleared and nothing runs.
timeoutElapses(c) ==
    /\ Pending(c)
    /\ ~calls[c].request.late
    /\ calls' = [calls EXCEPT ![c] =
          IF @.request.phase = "fetch"
          THEN Done(@, NetworkError("Request timeout after " \o ToString(@.request.timeout)
                                    \o "ms - server at " \o host \o " not responding"))
          ELSE [@ EXCEPT !.request.late = TRUE]]
    /\ UNCHANGED adapter

\* The body of the response to a detection request of
\* ensureDimensionDetected has been read: detectDimension checks it, and
\* ensureDimensionDetected caches the length it returns
detectionArrives(c, body) ==
    /\ calls[c].pc = "ensure"
    /\ calls[c].request.phase = "body"
    /\ LET r == detectDimensionResult(body) IN
       IF r.kind = "ok"
       THEN /\ dimension' = r.number
            /\ dimensionDetected' = TRUE
            /\ dimensionSource' = calls[c].request.model
            /\ calls' = [calls EXCEPT ![c] = [@ EXCEPT !.request = NoRequest, !.result = r]]
       ELSE /\ calls' = [calls EXCEPT ![c] = Done(@, r)]
            /\ UNCHANGED <<dimension, dimensionDetected, dimensionSource>>
    /\ UNCHANGED <<instance, config, maxTokens, host, codePrefix>>

\* The body of the response to the request of embed, embedBatch or a
\* caller's detectDimension has been read
responseArrives(c, body) ==
    /\ calls[c].pc = "request"
    /\ calls[c].request.phase = "body"
    /\ calls' = [calls EXCEPT ![c] = Done(@,
          IF @.op = "embed" THEN embedResult(body)
          ELSE IF @.op = "embedBatch" THEN embedBatchResult(body)
          ELSE detectDimensionResult(body))]
    /\ UNCHANGED adapter

\* ------------------------------------------------------------ specification

\* A caller that awaits each call before it makes the next one makes a call
\* only when no call is being awaited.
Sequential == \A c \in Calls : calls[c].pc = "idle"

\* The steps of the requests in flight and of the calls that await them.
Progress ==
    \/ \E c \in Calls : sendEmbeddings(c)
    \/ \E c \in Calls : setModelReturns(c)
    \/ \E c \in Calls : return(c)
    \/ \E c \in Calls, connection \in BOOLEAN : fetchRejects(c, connection)
    \/ \E c \in Calls : headersArrive(c)
    \/ \E c \in Calls : timeoutElapses(c)
    \/ \E c \in Calls, body \in Bodies : detectionArrives(c, body)
    \/ \E c \in Calls, body \in Bodies : responseArrives(c, body)

\* A caller that awaits each asynchronous call before the next; the
\* synchronous setters may be called at any time.
Next ==
    \/ \E cfg \in Configs : Construct(cfg)
    \/ \E h \in HostInputs : setHost(h)
    \/ \E b \in BOOLEAN : setCodePrefix(b)
    \/ \E p \in PrefixInputs : setCustomCodePrefix(p)
    \/ \E t \in TimeoutInputs : setTimeout(t)
    \/ \E c \in Calls, text \in Texts : Sequential /\ embed(c, text)
    \/ \E c \in Calls, texts \in Batches : Sequential /\ embedBatch(c, texts)
    \/ \E c \in Calls, m \in ModelInputs : Sequential /\ setModel(c, m)
    \/ \E c \in Calls : Sequential /\ detectDimension(c, DefaultTestText)
    \/ Progress

Spec == Init /\ [][Next]_vars

\* Callers whose embed, embedBatch and setModel calls overlap: one text,
\* one batch and one model name are enough for two calls to race.
NextOverlap ==
    \/ \E cfg \in Configs : Construct(cfg)
    \/ \E c \in Calls : embed(c, "foo")
    \/ \E c \in Calls : embedBatch(c, <<"foo">>)
    \/ \E c \in Calls : setModel(c, "m1")
    \/ Progress

SpecOverlap == Init /\ [][NextOverlap]_vars

\* ------------------------------------------------------------------ claims

Fixed == TruthyNum(config.dimension)

\* The call in slot c begins in this step.
Begins(c, op) == calls[c].pc = "idle" /\ calls'[c].op = op

\* C1: with no fixed dimension, once a dimension has been detected, an
\* embed or embedBatch call issues no detection request; only the
\* embeddings request follows.  As long as the model is not set again, no
\* detection request is in flight while the detected flag is set.
C1_NoDetectionOnceDetected ==
    /\ [](dimensionDetected /\ ~Fixed =>
            \A c \in Calls : calls[c].pc = "ensure" => ~Pending(c))
    /\ [][\A c \in Calls :
            (dimensionDetected /\ ~Fixed /\ (Begins(c, "embed") \/ Begins(c, "embedBatch")))
            => (calls'[c].detections = 0 /\ calls'[c].requests = 0)]_vars
    /\ [](\A c \in Calls :
            (calls[c].op \in {"embed", "embedBatch"} /\ calls[c].detections = 0)
            => calls[c].requests <= 1)

\* A second embed: a dimension was detected before, and this call has sent
\* its embeddings request without a detection request.
C1_Witness ==
    \E c \in Calls :
        /\ calls[c].op = "embed"
        /\ calls[c].pc = "request"
        /\ calls[c].detections = 0
        /\ calls[c].requests = 1
        /\ dimensionDetected /\ ~Fixed
        /\ dimensionSource # ""

\* C2 as stated: no call issues more than one HTTP request.
C2_AtMostOneRequestPerCall ==
    \A c \in Calls : calls[c].requests <= 1

\* C2 as amended: a call issues at most one request besides the detection
\* request of ensureDimensionDetected, and at most one such detection;
\* setModel issues nothing but that detection, and a caller's
\* detectDimension issues one request.
C2_AtMostOneRequestBesidesDetection ==
    \A c \in Calls :
        /\ calls[c].detections <= 1
        /\ calls[c].requests <= calls[c].detections + 1
        /\ calls[c].op = "setModel" => calls[c].requests = calls[c].detections
        /\ calls[c].op = "detectDimension" =>
              (calls[c].detections = 0 /\ calls[c].requests = 1)

\* An embed that returned vectors after two requests, the first a detection.
C2_Witness ==
    \E c \in Calls :
        /\ calls[c].op = "embed"
        /\ calls[c].pc = "done"
        /\ calls[c].result.kind = "ok"
        /\ calls[c].requests = 2
        /\ calls[c].detections = 1

\* C3: with a fixed dimension, getDimension() is the configured value and
\* no call has issued a detection request through ensureDimensionDetected.
C3_FixedDimensionKept ==
    (instance = "live" /\ Fixed) =>
        /\ getDimension = config.dimension[1]
        /\ \A c \in Calls : calls[c].detections = 0

\* A fixed dimension, the detected flag reset by a setModel that returned,
\* and an embed that then returned a vector the server made longer or
\* shorter than the configured dimension.
C3_Witness ==
    /\ instance = "live" /\ Fixed
    /\ ~dimensionDetected
    /\ IsDefined(config.model) /\ config.model[1] = "m2"
    /\ \E c \in Calls :
        /\ calls[c].op = "embed"
        /\ calls[c].pc = "done"
        /\ calls[c].result.kind = "ok"
        /\ Len(calls[c].result.vectors[1].vector) # config.dimension[1]

\* C4: with no fixed dimension, a setModel call with a valid name issues
\* exactly one request, a detection request naming the new model; when its
\* answer is accepted, getDimension() is the length it reported.
C4_SetModelDetectsOnce ==
    \A c \in Calls :
        (calls[c].op = "setModel" /\ ~Fixed /\ calls[c].result.kind # "ConfigurationError") =>
            /\ calls[c].requests = 1
            /\ calls[c].detections = 1
            /\ calls[c].pc \in {"ensure", "done"}
            /\ (calls[c].pc = "ensure" /\ Pending(c)) =>
                  (calls[c].request.model = calls[c].arg[1]
                   /\ config.model = Some(calls[c].arg[1]))
            /\ (calls[c].pc = "ensure" /\ ~Pending(c)) =>
                  (dimensionDetected
                   /\ getDimension = calls[c].result.number
                   /\ dimensionSource = calls[c].arg[1])
            /\ (calls[c].pc = "done" /\ calls[c].result.kind = "ok") =>
                  (dimensionDetected /\ dimensionSource = config.model[1])

\* The detection request of setModel("m2") was answered with an embedding
\* of length 1, and getDimension() is 1 (no longer the default 768).
C4_Witness ==
    \E c \in Calls :
        /\ calls[c].op = "setModel"
        /\ calls[c].pc = "ensure"
        /\ ~Pending(c)
        /\ ~Fixed
        /\ calls[c].arg = <<"m2">>
        /\ calls[c].result.number = 1
        /\ getDimension = 1

\* C5 as stated: no request of an embed call is still pending once its
\* timeout has elapsed.
C5_EmbedNeverPendingPastTimeout ==
    \A c \in Calls :
        calls[c].op = "embed" => ~(Pending(c) /\ calls[c].request.late)

\* C6 as stated: no instance is constructed from a configuration whose
\* dimension is present and not positive.
C6_NonPositiveDimensionRejected ==
    (IsDefined(config.dimension) /\ config.dimension[1] <= 0) => instance # "live"

\* C7 as stated: the timeout of every request in flight is positive and at
\* most 600000.
C7_RequestTimeoutWithinCap ==
    \A c \in Calls :
        Pending(c) => (0 < calls[c].request.timeout /\ calls[c].request.timeout <= MaxTimeout)

\* The text the claim expects for t under the current prefix configuration.
Prefixed(t) ==
    IF ~TruthyBool(config.codePrefix) THEN t
    ELSE IF StartsWith(t, codePrefix) THEN t
    ELSE codePrefix \o " " \o t

\* C8: the text embed holds, and each text embedBatch holds, is the
\* argument unchanged when prefixing is off or the argument starts with the
\* prefix, and otherwise prefix, space, argument; that text is what the
\* embeddings request carries; and processing a processed text again
\* changes nothing.
C8_PrefixOnce ==
    /\ [][\A c \in Calls :
            (Begins(c, "embed") \/ Begins(c, "embedBatch")) =>
                /\ Len(calls'[c].input) = Len(calls'[c].arg)
                /\ \A i \in 1..Len(calls'[c].arg) :
                      calls'[c].input[i] = Prefixed(calls'[c].arg[i])]_vars
    /\ [](\A c \in Calls :
            (calls[c].op \in {"embed", "embedBatch"} /\ calls[c].pc = "request") =>
                calls[c].request.input = calls[c].input)
    /\ [](instance = "live" =>
            \A t \in Texts \cup {codePrefix \o " " \o u : u \in Texts} :
                preprocessTextForCode(preprocessTextForCode(t)) = preprocessTextForCode(t))

\* An embed whose argument already starts with the prefix in force, sent
\* as it is, while a batch of a prefixed and an unprefixed text could be sent.
C8_Witness ==
    \E c \in Calls :
        /\ calls[c].op = "embed"
        /\ calls[c].pc = "request"
        /\ TruthyBool(config.codePrefix)
        /\ StartsWith(calls[c].arg[1], codePrefix)
        /\ calls[c].request.input = calls[c].arg

\* C9 as stated: every vector embed or embedBatch returns has a dimension
\* field equal to the length of its vector.
C9_DimensionIsVectorLength ==
    \A c \in Calls :
        (calls[c].op \in {"embed", "embedBatch"} /\ calls[c].pc = "done"
         /\ calls[c].result.kind = "ok") =>
            \A i \in 1..Len(calls[c].result.vectors) :
                calls[c].result.vectors[i].dimension = Len(calls[c].result.vectors[i].vector)

\* C10 as stated: once every call has completed, a detected dimension is
\* the length reported for the model now configured.
C10_CachedDimensionOfCurrentModel ==
    (/\ instance = "live"
     /\ \A c \in Calls : calls[c].pc \in {"idle", "done"}
     /\ dimensionDetected
     /\ ~Fixed)
    => dimensionSource = RequestModel

====
